---- MODULE Spec2Model ----
(***************************************************************************)
(* Model of scrap_table.py: fetch_latest_sismos, save_to_csv,              *)
(* save_to_dynamodb and lambda_handler.                                    *)
(*                                                                         *)
(* Python values: None is <<>>, a str s is <<s>> (so "" and None differ).  *)
(* A text (the content of a cell, an href) is a sequence of tokens; the    *)
(* tokens " " and "\n" are its whitespace.  A dict is a function from its  *)
(* keys; KeyOrder gives the insertion order of the keys the program uses.  *)
(***************************************************************************)
EXTENDS Integers, Sequences, FiniteSets, TLC

\* ---- bounds of the model
MaxRows == 2      \* pages of up to MaxRows rows are enumerated in full
MaxLimit == 2     \* LIMIT ranges over -1..MaxLimit, unset, and one large value
MaxRuns == 2      \* invocations of lambda_handler in one behaviour

\* ---- program constants
DefaultLimit == 10    \* os.environ.get("LIMIT", "10")
FlushAmount == 25     \* table.batch_writer(): boto3 flushes every 25 buffered puts
BASE_URL == "https://ultimosismo.igp.gob.pe"
DefaultCsvPath == "sismos.csv"

None == <<>>
PyStr(s) == <<s>>
Min(a, b) == IF a <= b THEN a ELSE b
Max(a, b) == IF a >= b THEN a ELSE b

\* ------------------------------------------------------------------ text
IsSpace(c) == c \in {" ", "\n"}

RECURSIVE LStrip(_)
LStrip(s) == IF s = <<>> THEN <<>>
             ELSE IF IsSpace(Head(s)) THEN LStrip(Tail(s)) ELSE s

RECURSIVE RStrip(_)
RStrip(s) == IF s = <<>> THEN <<>>
             ELSE IF IsSpace(s[Len(s)]) THEN RStrip(SubSeq(s, 1, Len(s) - 1)) ELSE s

\* str.strip()
strip(s) == RStrip(LStrip(s))

\* index of the first "\n" of s, 0 when there is none
FirstBreak(s) == IF \E i \in 1..Len(s) : s[i] = "\n"
                 THEN CHOOSE i \in 1..Len(s) : s[i] = "\n" /\ \A j \in 1..(i - 1) : s[j] # "\n"
                 ELSE 0

\* str.splitlines()
RECURSIVE splitlines(_)
splitlines(s) == IF s = <<>> THEN <<>>
                 ELSE LET k == FirstBreak(s)
                      IN IF k = 0 THEN <<s>>
                         ELSE <<SubSeq(s, 1, k - 1)>> \o splitlines(SubSeq(s, k + 1, Len(s)))

\* " ".join(parts)
RECURSIVE join(_)
join(parts) == IF parts = <<>> THEN <<>>
               ELSE IF Len(parts) = 1 THEN parts[1]
               ELSE parts[1] \o <<" ">> \o join(Tail(parts))

\* the Python string a token sequence spells
RECURSIVE Str(_)
Str(s) == IF s = <<>> THEN "" ELSE Head(s) \o Str(Tail(s))

\* td.get_text(strip=True) of a cell holding one text node
get_text(td) == strip(td)

\* ------------------------------------------------------------------ urljoin
Schemes == {"http://", "https://"}

\* urljoin raises ValueError ("Invalid IPv6 URL") on an absolute reference whose
\* network location opens a bracket it does not close
UrljoinRaises(href) ==
    /\ href # <<>>
    /\ Head(href) \in Schemes
    /\ \E i \in 1..Len(href) : href[i] = "["
    /\ ~ \E i \in 1..Len(href) : href[i] = "]"

\* urljoin(BASE_URL, href): an absolute reference passes unchanged, a relative
\* one is resolved against the (path-less) base
urljoin(base, href) ==
    IF Head(href) \in Schemes THEN Str(href)
    ELSE IF Head(href) = "/" THEN base \o Str(href)
    ELSE base \o "/" \o Str(href)

\* ------------------------------------------------------------------ rows
\* a <tr>: the texts of its <td> cells and the href of its first <a href>, or None
RowFull == [tds |-> << <<" ", " ", "Lima", "\n", " ", " ", ",", " ", "10km", "\n">>,
                       <<"1">>,
                       <<"01/01/2024", " ", "10:00:00">>,
                       <<"4.5">> >>,
            href |-> << <<"/", "reporte/123">> >>]
RowShort == [tds |-> << <<"Ica">> >>, href |-> None]
RowBad == [tds |-> << <<"Arequipa">>, <<"2">>, <<"02/01/2024">>, <<"5.1">> >>,
           href |-> << <<"http://", "[", "igp.gob.pe/r">> >>]
Pool == {RowFull, RowShort, RowBad}

\* pages longer than one batch_writer buffer: one of well-formed rows only, one
\* whose third row raises
LongPage == [i \in 1..(FlushAmount + 1) |-> IF i % 2 = 1 THEN RowFull ELSE RowShort]
LongPageBad == [i \in 1..(FlushAmount + 2) |->
                   IF i = 3 THEN RowBad ELSE IF i % 2 = 1 THEN RowFull ELSE RowShort]

\* what soup.select("table.table tbody tr") can return
Pages == UNION {[1..n -> Pool] : n \in 0..MaxRows} \cup {LongPage, LongPageBad}

\* lines 41-48 and 50 raise for this row
RowRaises(row) == row.href # None /\ row.href[1] # <<>> /\ UrljoinRaises(row.href[1])

\* lines 41-57: the item of a row whose mapping does not raise
RowItem(row) ==
    LET tds == row.tds
        referencia0 == IF Len(tds) > 0 THEN get_text(tds[1]) ELSE <<>>
        fecha_hora == IF Len(tds) > 2 THEN get_text(tds[3]) ELSE <<>>
        magnitud == IF Len(tds) > 3 THEN get_text(tds[4]) ELSE <<>>
        href == row.href
        reporte_url == IF href # None /\ href[1] # <<>>
                       THEN PyStr(urljoin(BASE_URL, href[1])) ELSE None
        lines == splitlines(referencia0)
        kept == SelectSeq([i \in 1..Len(lines) |-> strip(lines[i])], LAMBDA s : s # <<>>)
    IN [referencia |-> PyStr(Str(join(kept))),
        reporte_url |-> reporte_url,
        fecha_hora |-> PyStr(Str(fecha_hora)),
        magnitud |-> PyStr(Str(magnitud))]

\* mutant of Slice: rows[:limit + 1]
SliceOneMore(rows, limit) == SubSeq(rows, 1, Min(limit + 1, Len(rows)))

\* rows[:limit]
Slice(rows, limit) ==
    IF limit >= 0 THEN SubSeq(rows, 1, Min(limit, Len(rows)))
    ELSE SubSeq(rows, 1, Max(0, Len(rows) + limit))

\* mutant of MapRows: the try encloses the loop, so the first row that raises
\* ends it
RECURSIVE MapRowsAbort(_)
MapRowsAbort(rs) ==
    IF rs = <<>> \/ RowRaises(Head(rs)) THEN <<>>
    ELSE <<RowItem(Head(rs))>> \o MapRowsAbort(Tail(rs))

\* the for loop of lines 39-60: a row that raises appends nothing
RECURSIVE MapRows(_)
MapRows(rs) ==
    IF rs = <<>> THEN <<>>
    ELSE (IF RowRaises(Head(rs)) THEN <<>> ELSE <<RowItem(Head(rs))>>) \o MapRows(Tail(rs))

HttpOutcomes == {"ok", "ConnectionError", "HTTPError"}

\* mutant of fetch_latest_sismos: the GET is not inside a try
FetchUncaught(outcome, rows, limit) ==
    [results |-> IF outcome = "ok" THEN MapRows(Slice(rows, limit)) ELSE <<>>,
     normalized |-> IF outcome = "ok" THEN Len(Slice(rows, limit)) ELSE 0,
     raised |-> outcome # "ok"]

\* fetch_latest_sismos(limit), given how the GET ended and the rows of the page
fetch_latest_sismos(outcome, rows, limit) ==
    IF outcome # "ok"
    THEN [results |-> <<>>, normalized |-> 0, raised |-> FALSE]
    ELSE [results |-> MapRows(Slice(rows, limit)),
          normalized |-> Len(Slice(rows, limit)),
          raised |-> FALSE]

\* ------------------------------------------------------------------ save_to_csv
KeyOrder == <<"referencia", "reporte_url", "fecha_hora", "magnitud", "id">>

\* list(it.keys()): the keys of a dict in insertion order
Keys(it) == SelectSeq(KeyOrder, LAMBDA k : k \in DOMAIN it)

\* the csv module writes None as the empty field
CsvField(v) == IF v = None THEN "" ELSE v[1]

\* writer.writerow(it) under fieldnames keys: a missing key is written as ""
CsvRow(keys, it) ==
    [j \in 1..Len(keys) |-> IF keys[j] \in DOMAIN it THEN CsvField(it[keys[j]]) ELSE ""]

\* DictWriter raises ValueError for a dict with a key outside fieldnames
HasExtras(keys, it) == \E k \in DOMAIN it : ~ \E j \in 1..Len(keys) : keys[j] = k

AbsentFile == [exists |-> FALSE, rows |-> <<>>]

\* mutant of OpenW: open(path, "a")
OpenA(old) == [exists |-> TRUE, rows |-> old.rows]

\* open(path, "w"): the file exists and is empty
OpenW(old) == [exists |-> TRUE, rows |-> <<>>]

CsvOutcomes == {"ok", "OSError"}

\* mutant of save_to_csv: no `if not items` guard, so items[0] raises IndexError
SaveCsvUnguarded(items, path, io, fs) ==
    IF items = <<>> \/ io = "OSError" THEN [fs |-> fs, raised |-> TRUE]
    ELSE LET keys == Keys(items[1])
             f == OpenW(fs[path])
             written == [f EXCEPT !.rows = <<keys>>
                                     \o [i \in 1..Len(items) |-> CsvRow(keys, items[i])]]
         IN [fs |-> [fs EXCEPT ![path] = written], raised |-> FALSE]

\* save_to_csv(items, path) on file system fs; io says whether open() succeeds
save_to_csv(items, path, io, fs) ==
    IF items = <<>> THEN [fs |-> fs, raised |-> FALSE]
    ELSE IF io = "OSError" THEN [fs |-> fs, raised |-> TRUE]
    ELSE LET keys == Keys(items[1])
             bad == {i \in 1..Len(items) : HasExtras(keys, items[i])}
             n == IF bad = {} THEN Len(items)
                  ELSE (CHOOSE i \in bad : \A j \in bad : i <= j) - 1
             f == OpenW(fs[path])
             written == [f EXCEPT !.rows = f.rows \o <<keys>>
                                             \o [i \in 1..n |-> CsvRow(keys, items[i])]]
         IN [fs |-> [fs EXCEPT ![path] = written], raised |-> bad # {}]

\* ------------------------------------------------------------------ save_to_dynamodb
\* str(uuid4()): the n-th identifier drawn; draws are taken to be fresh
uuid4(n) == PyStr("uuid-" \o ToString(n))

\* batch_write_item requests a batch of n puts issues: one per FlushAmount puts
\* inside put_item, and one for the rest when the with block exits
NumFlushes(n) == (n + FlushAmount - 1) \div FlushAmount

NoFailure == [point |-> "none", k |-> 0, exc |-> "none"]

\* what can go wrong in a call with n items: boto3.resource()/Table() raising
\* (lines 85-86), or the k-th batch_write_item request raising a ClientError
\* (throttling, validation, ...) or a botocore error that is not one
\* (EndpointConnectionError: no connectivity)
DdbScenarios(n) ==
    {NoFailure, [point |-> "resource", k |-> 0, exc |-> "NoRegionError"]}
    \cup {[point |-> "flush", k |-> k, exc |-> e] :
             k \in 1..NumFlushes(n), e \in {"ClientError", "EndpointConnectionError"}}

\* number of items the loop of lines 90-96 reaches before the scenario's failure
Reached(n, sc) ==
    IF sc.point = "resource" THEN 0
    ELSE IF sc.point = "flush" THEN Min(n, sc.k * FlushAmount)
    ELSE n

\* lines 92-95 applied to the first `reached` items: an item without "id" gets one
AssignIds(items, reached, drawn) ==
    [i \in 1..Len(items) |->
        IF i <= reached /\ "id" \notin DOMAIN items[i]
        THEN LET nth == Cardinality({j \in 1..i : "id" \notin DOMAIN items[j]})
             IN [key \in DOMAIN items[i] \cup {"id"} |->
                    IF key = "id" THEN uuid4(drawn + nth) ELSE items[i][key]]
        ELSE items[i]]

\* the except clause of line 99
Caught(exc) == exc = "ClientError"

\* save_to_dynamodb(items, table_name) under scenario sc, `drawn` identifiers
\* having been drawn before: the items as the call leaves them (the list is
\* mutated in place), the return value or the exception that escapes, the number
\* of batch_write_item requests issued, and the identifiers drawn
save_to_dynamodb(items, sc, drawn) ==
    IF items = <<>>
    THEN [items |-> items, ret |-> "True", exc |-> "none", requests |-> 0, drawn |-> drawn]
    ELSE LET n == Len(items)
             reached == Reached(n, sc)
             after == AssignIds(items, reached, drawn)
             lacking == Cardinality({j \in 1..reached : "id" \notin DOMAIN items[j]})
             requests == IF sc.point = "resource" THEN 0
                         ELSE IF sc.point = "flush" THEN sc.k ELSE NumFlushes(n)
         IN [items |-> after,
             ret |-> IF sc.point = "none" THEN "True"
                     ELSE IF sc.point = "flush" /\ Caught(sc.exc) THEN "False"
                     ELSE "raise",
             exc |-> sc.exc,
             requests |-> requests,
             drawn |-> drawn + lacking]

\* ------------------------------------------------------------------ lambda_handler
VARIABLES
    pc,          \* where the current invocation of lambda_handler stands
    runs,        \* invocations started
    env,         \* os.environ of the process: LIMIT, DDB_TABLE, CSV_PATH
    http,        \* how the GET of this invocation ended
    rows,        \* the rows soup.select found
    limit,       \* local limit
    items,       \* local items: one list object, shared with both sinks
    saved,       \* local saved
    fs,          \* the file system: path -> file
    calls,       \* the sink calls of this invocation, in order, with their arguments
    gets,        \* GET requests issued by this invocation
    normalized,  \* rows whose mapping this invocation started
    requests,    \* batch_write_item requests issued by this invocation
    drawn,       \* identifiers drawn from uuid4 so far
    exc,         \* the exception that left lambda_handler, "none" if none
    response,    \* the value lambda_handler returned, None before it returns
    fsAtStart,   \* history: fs when this invocation started
    lastCsv      \* history: path -> items of the last save_to_csv call that wrote it

vars == <<pc, runs, env, http, rows, limit, items, saved, fs, calls, gets, normalized,
          requests, drawn, exc, response, fsAtStart, lastCsv>>

Paths == {DefaultCsvPath, "out.csv"}

\* values of the LIMIT variable: unset, or the text of an integer
LimitEnv == {None} \cup {<<n>> : n \in (-1..MaxLimit) \cup {FlushAmount + MaxLimit}}
TableEnv == {None, PyStr(""), PyStr("Sismos")}
PathEnv == {None, PyStr("out.csv")}
Envs == [LIMIT : LimitEnv, DDB_TABLE : TableEnv, CSV_PATH : PathEnv]

\* os.environ.get(name, default)
Get(value, default) == IF value = None THEN default ELSE value[1]

\* truth value of an optional string: None and "" are false
Truthy(v) == v # None /\ v # PyStr("")

\* mutant of NeedsFallback: the flag is read the wrong way round
NeedsFallbackInverted(table_name, sv) == ~ Truthy(table_name) \/ sv

\* line 118
NeedsFallback(table_name, sv) == ~ Truthy(table_name) \/ ~ sv

Init ==
    /\ pc = "idle"
    /\ runs = 0
    /\ env \in Envs
    /\ http = "none"
    /\ rows = <<>>
    /\ limit = DefaultLimit
    /\ items = <<>>
    /\ saved = FALSE
    /\ fs = [p \in Paths |-> AbsentFile]
    /\ calls = <<>>
    /\ gets = 0
    /\ normalized = 0
    /\ requests = 0
    /\ drawn = 0
    /\ exc = "none"
    /\ response = None
    /\ fsAtStart = [p \in Paths |-> AbsentFile]
    /\ lastCsv = [p \in Paths |-> <<>>]

\* the runtime invokes lambda_handler(event, context)
Invoke ==
    /\ pc \in {"idle", "done", "raised"}
    /\ runs < MaxRuns
    /\ runs' = runs + 1
    /\ pc' = "fetch"
    /\ http' = "none"
    /\ rows' = <<>>
    /\ limit' = DefaultLimit
    /\ items' = <<>>
    /\ saved' = FALSE
    /\ calls' = <<>>
    /\ gets' = 0
    /\ normalized' = 0
    /\ requests' = 0
    /\ exc' = "none"
    /\ response' = None
    /\ fsAtStart' = fs
    /\ UNCHANGED <<env, fs, drawn, lastCsv>>

\* lines 110-111
Fetch ==
    /\ pc = "fetch"
    /\ \E o \in HttpOutcomes, page \in Pages :
          LET lim == Get(env.LIMIT, DefaultLimit)
              found == IF o = "ok" THEN page ELSE <<>>
              r == fetch_latest_sismos(o, found, lim)
          IN /\ limit' = lim
             /\ http' = o
             /\ rows' = found
             /\ gets' = gets + 1
             /\ items' = r.results
             /\ normalized' = r.normalized
             /\ pc' = IF r.raised THEN "raised" ELSE "persist"
             /\ exc' = IF r.raised THEN o ELSE "none"
    /\ UNCHANGED <<runs, env, saved, fs, calls, requests, drawn, response, fsAtStart, lastCsv>>

\* lines 113-116 with DDB_TABLE set
SaveDynamo ==
    /\ pc = "persist"
    /\ Truthy(env.DDB_TABLE)
    /\ \E sc \in DdbScenarios(Len(items)) :
          LET r == save_to_dynamodb(items, sc, drawn)
          IN /\ items' = r.items
             /\ drawn' = r.drawn
             /\ requests' = requests + r.requests
             /\ calls' = Append(calls, [sink |-> "dynamodb", items |-> items,
                                        result |-> r.ret, failure |-> sc])
             /\ saved' = (r.ret = "True")
             /\ pc' = IF r.ret = "raise" THEN "raised" ELSE "fallback"
             /\ exc' = IF r.ret = "raise" THEN r.exc ELSE "none"
    /\ UNCHANGED <<runs, env, http, rows, limit, fs, gets, normalized, response, fsAtStart,
                   lastCsv>>

\* lines 113-115 with DDB_TABLE unset or empty
NoTable ==
    /\ pc = "persist"
    /\ ~ Truthy(env.DDB_TABLE)
    /\ saved' = FALSE
    /\ pc' = "fallback"
    /\ UNCHANGED <<runs, env, http, rows, limit, items, fs, calls, gets, normalized, requests,
                   drawn, exc, response, fsAtStart, lastCsv>>

\* lines 118-119, condition true
SaveCsv ==
    /\ pc = "fallback"
    /\ NeedsFallback(env.DDB_TABLE, saved)
    /\ \E io \in CsvOutcomes :
          LET path == Get(env.CSV_PATH, DefaultCsvPath)
              r == save_to_csv(items, path, io, fs)
              wrote == items # <<>> /\ io = "ok"
          IN /\ fs' = r.fs
             /\ calls' = Append(calls, [sink |-> "csv", items |-> items,
                                        result |-> IF r.raised THEN "raise" ELSE "None",
                                        failure |-> NoFailure])
             /\ lastCsv' = IF wrote /\ ~ r.raised THEN [lastCsv EXCEPT ![path] = items]
                           ELSE lastCsv
             /\ pc' = IF r.raised THEN "raised" ELSE "return"
             /\ exc' = IF r.raised THEN (IF io = "OSError" THEN io ELSE "ValueError")
                       ELSE "none"
    /\ UNCHANGED <<runs, env, http, rows, limit, items, saved, gets, normalized, requests,
                   drawn, response, fsAtStart>>

\* line 118, condition false
NoFallback ==
    /\ pc = "fallback"
    /\ ~ NeedsFallback(env.DDB_TABLE, saved)
    /\ pc' = "return"
    /\ UNCHANGED <<runs, env, http, rows, limit, items, saved, fs, calls, gets, normalized,
                   requests, drawn, exc, response, fsAtStart, lastCsv>>

\* line 121
Return ==
    /\ pc = "return"
    /\ response' = <<[statusCode |-> 200, body |-> items]>>
    /\ pc' = "done"
    /\ UNCHANGED <<runs, env, http, rows, limit, items, saved, fs, calls, gets, normalized,
                   requests, drawn, exc, fsAtStart, lastCsv>>

Next == Invoke \/ Fetch \/ SaveDynamo \/ NoTable \/ SaveCsv \/ NoFallback \/ Return

Spec == Init /\ [][Next]_vars

\* ------------------------------------------------------------------ claims
DdbCalls == SelectSeq(calls, LAMBDA c : c.sink = "dynamodb")
CsvCalls == SelectSeq(calls, LAMBDA c : c.sink = "csv")
Ended == pc \in {"done", "raised"}
CsvPath == Get(env.CSV_PATH, DefaultCsvPath)

\* a record without its "id"
WithoutId(it) == [k \in DOMAIN it \ {"id"} |-> it[k]]

\* the same records, up to the identifiers the Keyed-Store Sink added
SameCollection(a, b) ==
    /\ Len(a) = Len(b)
    /\ \A i \in 1..Len(a) : WithoutId(a[i]) = WithoutId(b[i])

\* a Keyed-Store Sink call on a non-empty collection one of whose remote
\* requests failed
RemoteFailure(c) == c.sink = "dynamodb" /\ c.items # <<>> /\ c.failure.point = "flush"

\* C1: when an invocation has ended and its Keyed-Store Sink write of a non-empty
\* collection failed, whatever the failure, the Tabular Sink was invoked exactly
\* once, with the same collection.
C1_FallbackOnAnyFailure ==
    (Ended /\ \E j \in 1..Len(calls) : RemoteFailure(calls[j]))
        => /\ Len(CsvCalls) = 1
           /\ SameCollection(CsvCalls[1].items, DdbCalls[1].items)

\* C2: a Keyed-Store Sink call on a non-empty collection one of whose remote
\* requests failed, whatever the failure, returned False; it did not raise.
C2_RemoteFailureReturnsFalse ==
    \A j \in 1..Len(calls) : RemoteFailure(calls[j]) => calls[j].result = "False"

\* C3: each sink is called at most once per invocation; the Keyed-Store Sink is
\* called first whenever DDB_TABLE is configured; the Tabular Sink is called only
\* when DDB_TABLE is not configured or the Keyed-Store Sink call of this
\* invocation returned False, and never after it returned True.
C3_SinkOrder ==
    /\ Len(DdbCalls) <= 1
    /\ Len(CsvCalls) <= 1
    /\ (Truthy(env.DDB_TABLE) /\ pc \in {"fallback", "return", "done"}) => Len(DdbCalls) = 1
    /\ \A i \in 1..Len(calls) :
          calls[i].sink = "csv" =>
             \/ ~ Truthy(env.DDB_TABLE) /\ DdbCalls = <<>>
             \/ \E j \in 1..(i - 1) : calls[j].sink = "dynamodb" /\ calls[j].result = "False"
    /\ \A j \in 1..Len(calls) :
          (calls[j].sink = "dynamodb" /\ calls[j].result = "True") => CsvCalls = <<>>

\* C3 witness: the Tabular Sink ran as the fallback of a failed Keyed-Store write
C3_Witness ==
    /\ pc = "done"
    /\ Len(calls) = 2
    /\ calls[1].sink = "dynamodb" /\ calls[1].result = "False"
    /\ calls[2].sink = "csv" /\ calls[2].items # <<>>

WellFormed(rs) == \A i \in 1..Len(rs) : ~ RowRaises(rs[i])

\* C4: just after a fetch that got a page of N well-formed rows under a limit
\* >= 0, items has min(limit, N) records and the i-th is that of the i-th row.
C4_LimitAndOrder ==
    (pc = "persist" /\ http = "ok" /\ limit >= 0 /\ WellFormed(rows))
        => /\ Len(items) = Min(limit, Len(rows))
           /\ \A i \in 1..Len(items) : items[i] = RowItem(rows[i])

\* C4 witness: more rows than the limit, and two different rows within it
C4_Witness ==
    /\ pc = "persist" /\ http = "ok" /\ WellFormed(rows)
    /\ limit >= 2 /\ Len(rows) > limit
    /\ Len(items) = limit
    /\ items[1] # items[2]

\* a step of the invocation past the fetch
Proceed == SaveDynamo \/ NoTable \/ SaveCsv \/ NoFallback \/ Return

\* C5: in an invocation whose GET ended in a transport error or an error status,
\* one GET was issued, no row was mapped, items is empty, no exception leaves
\* the handler, the invocation can always go on, and it returns status 200 with
\* an empty body.
C5_FetchFailureIsEmptySuccess ==
    (http \in {"ConnectionError", "HTTPError"})
        => /\ gets = 1
           /\ normalized = 0
           /\ items = <<>>
           /\ pc # "raised" /\ exc = "none"
           /\ pc \in {"persist", "fallback", "return"} => ENABLED Proceed
           /\ pc \in {"persist", "fallback", "return", "done"}
           /\ pc = "done" => response = <<[statusCode |-> 200, body |-> <<>>]>>

\* C5 witness: such an invocation has returned
C5_Witness ==
    /\ pc = "done" /\ http = "HTTPError" /\ Truthy(env.DDB_TABLE)
    /\ response # None

\* C6: an invocation whose record collection is empty raises nothing, issues no
\* remote request, and leaves every file as it was when the invocation started,
\* whether or not DDB_TABLE is configured.
C6_EmptyIsNoOp ==
    (pc \in {"fallback", "return", "done", "raised"} /\ items = <<>>)
        => /\ pc # "raised"
           /\ requests = 0
           /\ fs = fsAtStart
           /\ \A j \in 1..Len(calls) : calls[j].result \in {"True", "None"}

\* C6 witness: the Tabular Sink was called with an empty collection while the
\* destination file of an earlier invocation existed
C6_Witness ==
    /\ pc = "done" /\ items = <<>> /\ http = "ok"
    /\ Len(CsvCalls) = 1
    /\ fsAtStart[CsvPath].exists

\* C7: a file written by save_to_csv holds the header of the first record of the
\* last call that wrote it, then one row per record of that call, in order, and
\* nothing else.
C7_Overwrite ==
    \A p \in Paths :
        lastCsv[p] # <<>>
            => LET its == lastCsv[p]
                   keys == Keys(its[1])
               IN /\ fs[p].exists
                  /\ Len(fs[p].rows) = 1 + Len(its)
                  /\ fs[p].rows[1] = keys
                  /\ \A i \in 1..Len(its) :
                        /\ Len(fs[p].rows[i + 1]) = Len(keys)
                        /\ \A j \in 1..Len(keys) :
                              fs[p].rows[i + 1][j] =
                                 IF keys[j] \in DOMAIN its[i] /\ its[i][keys[j]] # None
                                 THEN its[i][keys[j]][1] ELSE ""

\* C7 witness: a second call has overwritten a longer file with other rows
C7_Witness ==
    /\ pc = "done"
    /\ Len(CsvCalls) = 1 /\ CsvCalls[1].items # <<>>
    /\ fsAtStart[CsvPath].exists
    /\ Len(fs[CsvPath].rows) < Len(fsAtStart[CsvPath].rows)
    /\ fs[CsvPath].rows[2] # fsAtStart[CsvPath].rows[2]

\* the positions, among the first limit rows, of the rows whose mapping does not
\* raise
GoodRows == {i \in 1..Min(limit, Len(rows)) : ~ RowRaises(rows[i])}

\* the k-th smallest element of a set of positions
Kth(S, k) == CHOOSE i \in S : Cardinality({j \in S : j <= i}) = k

\* C9: just after a fetch under a limit >= 0, items holds exactly the records of
\* the rows among the first limit that did not raise, in row order.
C9_SkipFailingRows ==
    (pc = "persist" /\ http = "ok" /\ limit >= 0)
        => /\ Len(items) = Cardinality(GoodRows)
           /\ \A k \in 1..Len(items) : items[k] = RowItem(rows[Kth(GoodRows, k)])

\* C9 witness: a row that raised has well-formed rows before and after it within
\* the limit, and there are well-formed rows beyond the limit
C9_Witness ==
    /\ pc = "persist" /\ http = "ok" /\ limit >= 0
    /\ \E i, j, k \in 1..Len(rows) :
          /\ i < j /\ j < k /\ k <= limit
          /\ ~ RowRaises(rows[i]) /\ RowRaises(rows[j]) /\ ~ RowRaises(rows[k])
    /\ \E m \in (limit + 1)..Len(rows) : ~ RowRaises(rows[m])
    /\ Len(items) = limit - 1

\* C10: every collection the Tabular Sink is called with is homogeneous: each
\* record has the keys of the first.
C10_HomogeneousAtCsv ==
    \A j \in 1..Len(calls) :
        calls[j].sink = "csv"
            => \A i \in 1..Len(calls[j].items) :
                  DOMAIN calls[j].items[i] = DOMAIN calls[j].items[1]

====
